---- MODULE Spec2Model ----
(***************************************************************************)
(* Model of the two Globus retrieval scripts get_10pct.py (automatic       *)
(* selection, plain download) and get_terraref.py (interactive selection,  *)
(* download + iRODS upload + purge).                                       *)
(*                                                                         *)
(* Text (file names, paths, operator entries, the manifest) is a sequence  *)
(* of atoms.  The atoms "/", ".", "\n", " ", "-" and the digits stand for  *)
(* the single characters; every other atom ("a", "_10pct", "tif", ...)     *)
(* stands for a non-empty run of characters holding none of those.         *)
(***************************************************************************)
EXTENDS Integers, Sequences, FiniteSets, TLC

VARIABLES
    variant,         \* which script runs: "10pct" or "terraref"
    pc,              \* position of the run
    error,           \* the exception that ended the run, "none" while there is none
    prev_error,      \* the exception that ended the previous run, "none" if none did
    run,             \* number of the current run (generate() invocation)
    folders,         \* result of globus_get_folders: a tuple of paths, or None
    fidx,            \* query_files: index of the folder being processed
    path_contents,   \* query_files: listing of the current folder
    matches,         \* query_files: candidates of the current folder
    sel_file,        \* query_files: the operator's last entry (stripped)
    extensions,      \* query_files: the extensions argument
    parts,           \* query_files: the include_parts / exclude_parts argument
    found_files,     \* query_files: files selected so far
    manifest,        \* text of file_10pct.txt / file_list.txt
    files,           \* globus_download_files: the files argument
    disk,            \* local paths that exist under LOCAL_SAVE_PATH
    file_transfers,  \* globus_download_files: remote paths to fetch, insertion order
    idx,             \* globus_download_files: position in file_transfers
    have_exception,  \* globus_download_files: a per-file failure was caught
    log,             \* the attempts made by the transfer loop in this run, in order
    prev_log,        \* the attempts made in the previous run
    start_disk       \* the disk as this run's globus_download_files found it

vars == << variant, pc, error, prev_error, run, folders, fidx, path_contents, matches, sel_file,
           extensions, parts, found_files, manifest, files, disk, file_transfers, idx,
           have_exception, log, prev_log, start_disk >>

queryVars == << folders, fidx, path_contents, matches, sel_file, extensions, parts,
                found_files, manifest >>

loadVars == << files, disk, file_transfers, idx, have_exception, log, prev_log,
               start_disk >>

----------------------------------------------------------------------------
(* Bounds of the model *)

\* most files handed to globus_download_files in the retrieval specification
MaxFiles == 2

\* most entries of one remote listing (root or sub folder)
MaxEntries == 3

\* number of runs with the same local root
MaxRuns == 2

----------------------------------------------------------------------------
(* Python values and text helpers *)

\* a value that is None or a tuple
None == [is_none |-> TRUE, items |-> << >>]

Tuple(items) == [is_none |-> FALSE, items |-> items]

Range(s) == { s[i] : i \in 1..Len(s) }

SeqsUpTo(S, n) == UNION { [1..k -> S] : k \in 0..n }

Distinct(s) == \A i, j \in 1..Len(s) : i # j => s[i] # s[j]

\* str.lstrip(chars) for a single character
RECURSIVE LStrip(_, _)
LStrip(s, c) == IF s # << >> /\ Head(s) = c THEN LStrip(Tail(s), c) ELSE s

\* str.rstrip(chars) for a single character
RECURSIVE RStrip(_, _)
RStrip(s, c) ==
    IF s # << >> /\ s[Len(s)] = c THEN RStrip(SubSeq(s, 1, Len(s) - 1), c) ELSE s

\* str.strip(): leading and trailing white space removed
Strip(s) == RStrip(LStrip(s, " "), " ")

\* `part in name` for str
Contains(name, part) ==
    \E i \in 1..(Len(name) - Len(part) + 1) :
        SubSeq(name, i, i + Len(part) - 1) = part

\* index of the last occurrence of atom c in s, 0 when there is none (str.rfind + 1)
LastIndex(s, c) ==
    LET hits == { i \in 1..Len(s) : s[i] = c }
    IN  IF hits = {} THEN 0 ELSE CHOOSE i \in hits : \A j \in hits : j <= i

\* os.path.join(a, b)
PathJoin(a, b) ==
    IF b # << >> /\ Head(b) = "/" THEN b
    ELSE IF a = << >> \/ a[Len(a)] = "/" THEN a \o b
    ELSE a \o << "/" >> \o b

\* os.path.basename(p)
Basename(p) == SubSeq(p, LastIndex(p, "/") + 1, Len(p))

\* os.path.splitext(p)[1]: from the last dot of the last component, unless that
\* component has only dots before it
SplitExt(p) ==
    LET sep == LastIndex(p, "/")
        dot == LastIndex(p, ".")
    IN  IF dot > sep /\ \E i \in (sep + 1)..(dot - 1) : p[i] # "."
        THEN SubSeq(p, dot, Len(p)) ELSE << >>

----------------------------------------------------------------------------
(* Module constants of the scripts *)

GLOBUS_PATH == << "/", "rgb_fullfield", "/" >>

LOCAL_SAVE_PATH == << "/", "cwd" >>

\* the extensions globus_get_tif_files passes to query_files
TifExtensions == << << ".", "tif" >>, << ".", "TIF" >>, << ".", "tiff" >>, << ".", "TIFF" >> >>

\* get_10pct.py: include_parts
IncludeParts == << << "_10pct" >> >>

\* get_terraref.py: exclude_parts
ExcludeParts == << << "_10pct" >>, << "_thumb" >>, << "_copy" >>, << "_mask" >>,
                   << "_nrmac" >>, << "test" >> >>

Variants == { "10pct", "terraref" }

FolderNames == << "d1", "d2", "d3", "d4" >>

\* entries a remote listing of a sub folder may hold
FilePool ==
    { [name |-> << "a", "_10pct", ".", "tif" >>, type |-> "file"],
      [name |-> << "b", "_10pct", ".", "tif" >>, type |-> "file"],
      [name |-> << "c", ".", "tif" >>, type |-> "file"],
      [name |-> << "b", ".", "TIF" >>, type |-> "file"],
      [name |-> << "c", "_10pct", ".", "txt" >>, type |-> "file"],
      [name |-> << "b" >>, type |-> "file"],
      [name |-> << "e", "_10pct", ".", "tif" >>, type |-> "dir"] }

\* entries the remote listing of GLOBUS_PATH may hold
RootPool ==
    { [name |-> << FolderNames[1] >>, type |-> "dir"],
      [name |-> << FolderNames[2] >>, type |-> "dir"],
      [name |-> << "r", "_10pct", ".", "tif" >>, type |-> "file"] }

\* a remote listing: entries of a directory have distinct names
Listings(pool) == { s \in SeqsUpTo(pool, MaxEntries) : Distinct(s) }

\* what client.operation_ls gives: None stands for a TransferAPIError
LsResponses(pool) == { None } \cup { Tuple(s) : s \in Listings(pool) }

\* the possible answers to the listing of GLOBUS_PATH
RootResponses == LsResponses(RootPool)

\* the possible answers to the listing of a sub folder, for the scan of one folder
FolderResponses == LsResponses(FilePool)

\* the possible answers to the listing of a sub folder, for a whole run
RunResponses ==
    LsResponses({ e \in FilePool : e.type = "file" /\ e.name[1] # "b" }
                    \cup { e \in FilePool : e.name = << "b", ".", "TIF" >> })

----------------------------------------------------------------------------
(* query_files: the scan of one folder's listing *)

\* check_ext = [e.lstrip('.') for e in extensions]
CheckExt(exts) == [ i \in 1..Len(exts) |-> LStrip(exts[i], ".") ]

\* file_format: the extension of the entry's name without its dot
FileFormat(name) == LStrip(SplitExt(name), ".")

\* the negation of `file_format not in check_ext`
ExtensionAllowed(name, check_ext) == FileFormat(name) \in Range(check_ext)

\* found_include / found_exclude: some part occurs in the name
FoundPart(name, name_parts) ==
    \E i \in 1..Len(name_parts) : Contains(name, name_parts[i])

RECURSIVE IncludeMatchesWithoutBreak(_, _, _, _)
IncludeMatchesWithoutBreak(entries, cur_path, check_ext, include_parts) ==
    IF entries = << >> THEN << >>
    ELSE LET e == Head(entries)
             rest == IncludeMatchesWithoutBreak(Tail(entries), cur_path, check_ext,
                                                include_parts)
         IN  IF e.type = "dir" THEN rest
             ELSE IF ~ExtensionAllowed(e.name, check_ext) THEN rest
             ELSE IF include_parts # << >> /\ FoundPart(e.name, include_parts)
                  THEN << PathJoin(cur_path, e.name) >> \o rest
             ELSE rest

\* get_10pct.py: matches of one listing (append and break at the first hit)
RECURSIVE IncludeMatches(_, _, _, _)
IncludeMatches(entries, cur_path, check_ext, include_parts) ==
    IF entries = << >> THEN << >>
    ELSE LET e == Head(entries)
             rest == IncludeMatches(Tail(entries), cur_path, check_ext, include_parts)
         IN  IF e.type = "dir" THEN rest
             ELSE IF ~ExtensionAllowed(e.name, check_ext) THEN rest
             ELSE IF include_parts # << >> /\ FoundPart(e.name, include_parts)
                  THEN << PathJoin(cur_path, e.name) >>
             ELSE rest

RECURSIVE ExcludeMatchesWithBreak(_, _, _, _)
ExcludeMatchesWithBreak(entries, cur_path, check_ext, exclude_parts) ==
    IF entries = << >> THEN << >>
    ELSE LET e == Head(entries)
             rest == ExcludeMatchesWithBreak(Tail(entries), cur_path, check_ext,
                                             exclude_parts)
         IN  IF e.type = "dir" THEN rest
             ELSE IF ~ExtensionAllowed(e.name, check_ext) THEN rest
             ELSE IF exclude_parts # << >> /\ FoundPart(e.name, exclude_parts) THEN rest
             ELSE << PathJoin(cur_path, e.name) >>

\* get_terraref.py: matches of one listing (every entry not excluded)
RECURSIVE ExcludeMatches(_, _, _, _)
ExcludeMatches(entries, cur_path, check_ext, exclude_parts) ==
    IF entries = << >> THEN << >>
    ELSE LET e == Head(entries)
             rest == ExcludeMatches(Tail(entries), cur_path, check_ext, exclude_parts)
         IN  IF e.type = "dir" THEN rest
             ELSE IF ~ExtensionAllowed(e.name, check_ext) THEN rest
             ELSE IF exclude_parts # << >> /\ FoundPart(e.name, exclude_parts) THEN rest
             ELSE << PathJoin(cur_path, e.name) >> \o rest

\* the scan as globus_get_tif_files configures it for each script
FolderMatches(v, entries, cur_path) ==
    IF v = "10pct"
    THEN IncludeMatches(entries, cur_path, CheckExt(TifExtensions), IncludeParts)
    ELSE ExcludeMatches(entries, cur_path, CheckExt(TifExtensions), ExcludeParts)

\* globus_get_folders: the sub folders of a listing of remote_path
RECURSIVE SubFolders(_, _)
SubFolders(entries, base_path) ==
    IF entries = << >> THEN << >>
    ELSE LET e == Head(entries)
         IN  (IF e.type = "dir" THEN << PathJoin(base_path, e.name) >> ELSE << >>)
                 \o SubFolders(Tail(entries), base_path)

----------------------------------------------------------------------------
(* The operator's entry at the selection prompt *)

Digits == << "0", "1", "2", "3", "4", "5", "6", "7", "8", "9" >>

IsDigit(c) == c \in Range(Digits)

DigitValue(c) == (CHOOSE i \in 1..Len(Digits) : Digits[i] = c) - 1

RECURSIVE DecimalValue(_)
DecimalValue(s) ==
    IF s = << >> THEN 0
    ELSE 10 * DecimalValue(SubSeq(s, 1, Len(s) - 1)) + DigitValue(s[Len(s)])

\* the digits of a literal, its sign taken off
Unsigned(s) ==
    LET t == Strip(s)
    IN  IF t # << >> /\ Head(t) \in { "-", "+" } THEN Tail(t) ELSE t

\* int(s) returns: white space around, an optional sign, one digit or more
IsInt(s) == Unsigned(s) # << >> /\ \A i \in 1..Len(Unsigned(s)) : IsDigit(Unsigned(s)[i])

\* int(s), for s with IsInt(s)
IntValue(s) ==
    IF Head(Strip(s)) = "-" THEN 0 - DecimalValue(Unsigned(s))
    ELSE DecimalValue(Unsigned(s))

\* what the operator may type at the prompt
EntryPool ==
    { << "0" >>, << "1" >>, << "2" >>, << "3" >>, << "1", "0" >>, << "-", "1" >>,
      << " ", "2", " " >>, << "x" >>, << "1", ".", "5" >>, << >> }

InRangeButLast(sel_idx, candidates) == sel_idx < Len(candidates)

\* sel_idx <= len(matches)
InRange(sel_idx, candidates) == sel_idx <= Len(candidates)

\* list[i] of Python, for i >= 0
PyItem(list, i) == list[i + 1]

\* matches[sel_idx - 1]
Selected(candidates, sel_idx) == PyItem(candidates, sel_idx - 1)

ManifestLineWithoutNewline(one_match) == one_match

\* the text of one out_file.write: one_match + '\n'
ManifestLine(one_match) == one_match \o << "\n" >>

\* the text written for a tuple of matches, one write each
RECURSIVE ManifestLines(_)
ManifestLines(ms) ==
    IF ms = << >> THEN << >> ELSE ManifestLine(Head(ms)) \o ManifestLines(Tail(ms))

----------------------------------------------------------------------------
(* globus_get_folders and query_files *)

\* globus_get_tif_files calls globus_get_folders: the remote listing of
\* GLOBUS_PATH fails (None is returned) or yields the sub folders
GetFolders ==
    /\ pc = "folders"
    /\ \E response \in RootResponses :
          folders' = IF response = None THEN None
                     ELSE Tuple(SubFolders(response.items,
                                           PathJoin(<< "/", "-" >>, GLOBUS_PATH)))
    /\ pc' = "open"
    /\ UNCHANGED << variant, error, prev_error, run, fidx, path_contents, matches,
                    sel_file, extensions, parts, found_files, manifest >>
    /\ UNCHANGED loadVars

\* entry of query_files: the manifest is opened for writing (truncated), and the
\* for statement asks folders for its iterator
OpenManifest ==
    /\ pc = "open"
    /\ found_files' = << >>
    /\ manifest' = << >>
    /\ fidx' = 1
    /\ IF folders = None
       THEN pc' = "raised" /\ error' = "TypeError"
       ELSE pc' = "query" /\ error' = error
    /\ UNCHANGED << variant, prev_error, run, folders, path_contents, matches, sel_file,
                    extensions, parts >>
    /\ UNCHANGED loadVars

\* one pass of the loop over folders: list the folder, scan the listing, and
\* (get_10pct.py) take the matches or (get_terraref.py) go to the prompt
ListFolder(responses) ==
    /\ pc = "query"
    /\ fidx <= Len(folders.items)
    /\ LET cur_path == PathJoin(<< "/", "-" >>, folders.items[fidx])
       IN  \E response \in responses :
              IF response = None
              THEN /\ fidx' = fidx + 1
                   /\ UNCHANGED << pc, path_contents, matches, found_files, manifest >>
              ELSE LET ms == IF variant = "10pct"
                             THEN IncludeMatches(response.items, cur_path,
                                                 CheckExt(extensions), parts)
                             ELSE ExcludeMatches(response.items, cur_path,
                                                 CheckExt(extensions), parts)
                   IN  /\ path_contents' = response.items
                       /\ matches' = ms
                       /\ IF variant = "10pct"
                          THEN /\ found_files' = found_files \o ms
                               /\ manifest' = manifest \o ManifestLines(ms)
                               /\ fidx' = fidx + 1
                               /\ pc' = pc
                          ELSE /\ UNCHANGED << found_files, manifest >>
                               /\ IF ms # << >>
                                  THEN pc' = "prompt" /\ fidx' = fidx
                                  ELSE pc' = pc /\ fidx' = fidx + 1
    /\ UNCHANGED << variant, error, prev_error, run, folders, sel_file, extensions, parts >>
    /\ UNCHANGED loadVars

\* a pass of the loop over folders during a whole run
ListRunFolder == ListFolder(RunResponses)

\* a pass of the loop over folders when query_files is called on one folder
ListOneFolder == ListFolder(FolderResponses)

\* get_terraref.py: one pass of the prompt loop for the current folder
Prompt ==
    /\ pc = "prompt"
    /\ \E entry \in EntryPool :
          /\ sel_file' = Strip(entry)
          /\ IF ~IsInt(Strip(entry))
             THEN /\ pc' = "raised" /\ error' = "ValueError"
                  /\ UNCHANGED << fidx, found_files, manifest >>
             ELSE LET sel_idx == IntValue(Strip(entry))
                  IN  IF sel_idx > 0 /\ InRange(sel_idx, matches)
                      THEN /\ found_files' = Append(found_files, Selected(matches, sel_idx))
                           /\ manifest' = manifest \o ManifestLine(Selected(matches, sel_idx))
                           /\ pc' = "query" /\ fidx' = fidx + 1 /\ error' = error
                      ELSE IF sel_idx = 0
                      THEN /\ pc' = "query" /\ fidx' = fidx + 1 /\ error' = error
                           /\ UNCHANGED << found_files, manifest >>
                      ELSE UNCHANGED << pc, error, fidx, found_files, manifest >>
    /\ UNCHANGED << variant, prev_error, run, folders, path_contents, matches,
                    extensions, parts >>
    /\ UNCHANGED loadVars

\* the loop over folders has run out: the manifest is closed and the tuple of
\* found files returned; globus_get_tif_files hands it to globus_download_files
EndQuery ==
    /\ pc = "query"
    /\ fidx > Len(folders.items)
    /\ files' = found_files
    /\ path_contents' = << >>
    /\ matches' = << >>
    /\ sel_file' = << >>
    /\ pc' = "download"
    /\ UNCHANGED << variant, error, prev_error, run, folders, fidx, extensions, parts,
                    found_files, manifest, disk, file_transfers, idx, have_exception,
                    log, prev_log, start_disk >>

----------------------------------------------------------------------------
(* globus_download_files *)

\* globus_save_path of a remote file
SavePath(one_file) == PathJoin(LOCAL_SAVE_PATH, Basename(one_file))

BuildTransfersWithoutSkip(fs, present) == fs

\* the first loop: file_transfers, keyed by remote path, in insertion order; a file
\* whose save path exists is left out
RECURSIVE BuildTransfers(_, _)
BuildTransfers(fs, present) ==
    IF fs = << >> THEN << >>
    ELSE LET rest == BuildTransfers(SubSeq(fs, 1, Len(fs) - 1), present)
             one_file == fs[Len(fs)]
         IN  IF SavePath(one_file) \notin present /\ one_file \notin Range(rest)
             THEN Append(rest, one_file) ELSE rest

\* the script uploads and purges
Uploads(v) == v = "terraref"

\* what one pass of the loop did: the file submitted, whether its save path
\* existed at submission, the result of the wait, whether the pass got past the
\* existence check, how the upload went, and whether a RuntimeError was caught
Attempt(remote, present, task_result, exists, upload) ==
    [ remote |-> remote, present |-> present, task_result |-> task_result,
      exists |-> exists, upload |-> upload,
      failed |-> (~task_result \/ ~exists \/ upload = "failed") ]

PurgedWhateverTheResult(returncode) == TRUE

\* the local file is removed after the upload command returned 0
Purged(returncode) == returncode = 0

LoopDoneAtFirstFailure(position, transfers, caught) ==
    position > Len(transfers) \/ caught

\* the for loop over file_transfers has run out; a caught failure does not end it
LoopDone(position, transfers, caught) == position > Len(transfers)

\* entry of globus_download_files: build file_transfers; nothing to do when empty
Begin ==
    /\ pc = "download"
    /\ LET ft == BuildTransfers(files, disk)
       IN  /\ file_transfers' = ft
           /\ start_disk' = disk
           /\ log' = << >>
           /\ prev_log' = log
           /\ idx' = 1
           /\ have_exception' = FALSE
           /\ pc' = IF ft = << >> THEN "done"
                    ELSE IF Uploads(variant) THEN "icd" ELSE "loop"
    /\ UNCHANGED << variant, error, prev_error, run, files, disk >>
    /\ UNCHANGED queryVars

\* get_terraref.py: icd to IRODS_LOCATION before the loop
Icd ==
    /\ pc = "icd"
    /\ \E returncode \in {0, 1} :
          IF returncode # 0
          THEN pc' = "raised" /\ error' = "icd"
          ELSE pc' = "loop" /\ error' = error
    /\ UNCHANGED << variant, prev_error, run >>
    /\ UNCHANGED loadVars
    /\ UNCHANGED queryVars

\* one pass of the transfer loop: submit, wait, check, (upload, purge).  The
\* transfer service decides what task_wait returns and whether the file is at
\* its destination when it returns (a wait that timed out may leave the file,
\* whole or in part); iput decides its return code.
Transfer ==
    /\ pc = "loop"
    /\ ~LoopDone(idx, file_transfers, have_exception)
    /\ LET remote_path == file_transfers[idx]
           save_path == SavePath(remote_path)
       IN  \E task_result \in BOOLEAN, arrives \in BOOLEAN, returncode \in {0, 1} :
              LET after == IF arrives THEN disk \cup {save_path} ELSE disk
                  exists == task_result /\ save_path \in after
                  upload == IF ~exists \/ ~Uploads(variant) THEN "none"
                            ELSE IF returncode # 0 THEN "failed" ELSE "ok"
                  rec == Attempt(remote_path, save_path \in disk, task_result,
                                 exists, upload)
              IN  /\ disk' = IF upload # "none" /\ Purged(returncode)
                             THEN after \ {save_path} ELSE after
                  /\ have_exception' = (have_exception \/ rec.failed)
                  /\ log' = Append(log, rec)
    /\ idx' = idx + 1
    /\ UNCHANGED << variant, pc, error, prev_error, run, files, file_transfers,
                    prev_log, start_disk >>
    /\ UNCHANGED queryVars

\* after the loop: raise the aggregate failure, or return
Finish ==
    /\ pc = "loop"
    /\ LoopDone(idx, file_transfers, have_exception)
    /\ IF have_exception
       THEN pc' = "raised" /\ error' = "aggregate"
       ELSE pc' = "done" /\ error' = error
    /\ UNCHANGED << variant, prev_error, run >>
    /\ UNCHANGED loadVars
    /\ UNCHANGED queryVars

\* the run has ended, normally or with an exception
Ended == pc \in { "done", "raised" }

\* the operator starts the script again with the same local root and selection
NextRun ==
    /\ Ended
    /\ run < MaxRuns
    /\ run' = run + 1
    /\ pc' = "download"
    /\ error' = "none"
    /\ prev_error' = error
    /\ UNCHANGED variant
    /\ UNCHANGED loadVars
    /\ UNCHANGED queryVars

----------------------------------------------------------------------------
(* Retrieval specification: globus_download_files run MaxRuns times on the   *)
(* same selection; the selection is one file from each of some folders.      *)

\* names query_files can select under the script's policy
Selectable(v) ==
    { e.name : e \in { x \in FilePool : FolderMatches(v, << x >>, << "/" >>) # << >> } }

FolderPath(i) == PathJoin(PathJoin(<< "/", "-" >>, GLOBUS_PATH), << FolderNames[i] >>)

Init ==
    /\ variant \in Variants
    /\ pc = "download"
    /\ error = "none"
    /\ prev_error = "none"
    /\ run = 1
    /\ folders = Tuple(<< >>)
    /\ fidx = 1
    /\ path_contents = << >>
    /\ matches = << >>
    /\ sel_file = << >>
    /\ extensions = TifExtensions
    /\ parts = IF variant = "10pct" THEN IncludeParts ELSE ExcludeParts
    /\ found_files = << >>
    /\ manifest = << >>
    /\ \E k \in 0..MaxFiles : \E names \in [1..k -> Selectable(variant)] :
          files = [ i \in 1..k |-> PathJoin(FolderPath(i), names[i]) ]
    /\ disk \in SUBSET { PathJoin(LOCAL_SAVE_PATH, n) : n \in Selectable(variant) }
    /\ file_transfers = << >>
    /\ idx = 1
    /\ have_exception = FALSE
    /\ log = << >>
    /\ prev_log = << >>
    /\ start_disk = {}

Next == Begin \/ Icd \/ Transfer \/ Finish \/ NextRun

Spec == Init /\ [][Next]_vars

----------------------------------------------------------------------------
(* Run specification: one run of globus_get_tif_files, from the listing of   *)
(* GLOBUS_PATH to the end of globus_download_files.                          *)

\* what an earlier run may have left in the manifest file
OldManifest == << "old", "\n" >>

InitRun ==
    /\ variant \in Variants
    /\ pc = "folders"
    /\ error = "none"
    /\ prev_error = "none"
    /\ run = 1
    /\ folders = Tuple(<< >>)
    /\ fidx = 1
    /\ path_contents = << >>
    /\ matches = << >>
    /\ sel_file = << >>
    /\ extensions = TifExtensions
    /\ parts = IF variant = "10pct" THEN IncludeParts ELSE ExcludeParts
    /\ found_files = << >>
    /\ manifest \in { << >>, OldManifest }
    /\ files = << >>
    /\ disk \in SUBSET { PathJoin(LOCAL_SAVE_PATH, << "a", "_10pct", ".", "tif" >>),
                         PathJoin(LOCAL_SAVE_PATH, << "c", ".", "tif" >>) }
    /\ file_transfers = << >>
    /\ idx = 1
    /\ have_exception = FALSE
    /\ log = << >>
    /\ prev_log = << >>
    /\ start_disk = {}

NextInRun ==
    \/ GetFolders \/ OpenManifest \/ ListRunFolder \/ Prompt \/ EndQuery
    \/ Begin \/ Icd \/ Transfer \/ Finish

SpecRun == InitRun /\ [][NextInRun]_vars

----------------------------------------------------------------------------
(* Scan specification: query_files called on one folder, with the extensions *)
(* and name parts drawn from small sets.                                     *)

ExtensionChoices == { TifExtensions, << << "*" >> >>, << << ".", "txt" >> >> }

PartChoices == { IncludeParts, ExcludeParts, << >>, << << "b" >>, << "c" >> >> }

InitScan ==
    /\ variant \in Variants
    /\ pc = "query"
    /\ error = "none"
    /\ prev_error = "none"
    /\ run = 1
    /\ folders = Tuple(<< FolderPath(1) >>)
    /\ fidx = 1
    /\ path_contents = << >>
    /\ matches = << >>
    /\ sel_file = << >>
    /\ extensions \in ExtensionChoices
    /\ parts \in PartChoices
    /\ found_files = << >>
    /\ manifest = << >>
    /\ files = << >>
    /\ disk = {}
    /\ file_transfers = << >>
    /\ idx = 1
    /\ have_exception = FALSE
    /\ log = << >>
    /\ prev_log = << >>
    /\ start_disk = {}

NextInScan == ListOneFolder \/ Prompt \/ EndQuery

SpecScan == InitScan /\ [][NextInScan]_vars

----------------------------------------------------------------------------
(* Properties of globus_download_files, checked under Spec *)

\* number of transfer submissions for one remote file in a run's log
Submissions(l, one_file) == Cardinality({ k \in 1..Len(l) : l[k].remote = one_file })

AnyFailure(l) == \E k \in 1..Len(l) : l[k].failed

\* every selected file absent at the start of the run was submitted exactly once
AllAttempted ==
    \A i \in 1..Len(files) :
        SavePath(files[i]) \notin start_disk => Submissions(log, files[i]) = 1

\* C1 as claimed: whenever globus_download_files has ended, every selected file
\* whose destination was absent at its start has been submitted once, and the
\* aggregate failure was raised exactly when a per-file failure was recorded.
C1_EveryFileAttempted ==
    Ended => /\ AllAttempted
             /\ (error = "aggregate") <=> AnyFailure(log)

\* C1 amended: the same, for every run in which the pre-loop icd did not fail;
\* while the loop runs no exception has left it, whatever the earlier files did,
\* and the aggregate failure comes only with every file attempted.
C1_EveryFileAttemptedAfterIcd ==
    /\ pc = "loop" => error = "none" /\ Len(log) = idx - 1
    /\ (Ended /\ error # "icd") =>
          /\ AllAttempted
          /\ (error = "aggregate") <=> AnyFailure(log)
          /\ (pc = "raised") <=> (error = "aggregate")
          /\ (pc = "raised") => Len(log) = Len(file_transfers)

\* C1 witness: the first of two files failed, the second was attempted all the
\* same and succeeded, and the aggregate failure was raised after it.
C1_Witness ==
    /\ pc = "raised" /\ error = "aggregate"
    /\ Len(log) = 2
    /\ log[1].failed /\ ~log[2].failed

\* C2 as claimed: no transfer is ever submitted for a remote path while a file
\* exists at its local destination.
C2_NeverRerequested == \A k \in 1..Len(log) : ~log[k].present

\* no per-file failure and no exception in the previous run and in this one
AllSucceeded ==
    ~AnyFailure(prev_log) /\ ~AnyFailure(log) /\ prev_error = "none" /\ error = "none"

\* C3 as claimed: over two consecutive runs in which every external call
\* succeeded, each selected file is submitted at most once, in both variants.
C3_AtMostOnceOverTwoRuns ==
    (run >= 2 /\ Ended /\ AllSucceeded) =>
        \A i \in 1..Len(files) :
            Submissions(prev_log, files[i]) + Submissions(log, files[i]) <= 1

\* C3 amended: that holds for the plain download script; in the upload script
\* the purge makes the second run submit again exactly what the first submitted.
C3_AtMostOnceWithoutPurge ==
    (run >= 2 /\ Ended /\ AllSucceeded) =>
        \A i \in 1..Len(files) :
            IF Uploads(variant)
            THEN Submissions(log, files[i]) = Submissions(prev_log, files[i])
            ELSE Submissions(prev_log, files[i]) + Submissions(log, files[i]) <= 1

\* C3 witness: the plain script fetched two files in the first run and the
\* second run has ended without submitting anything.
C3_Witness ==
    /\ ~Uploads(variant) /\ run = 2 /\ pc = "done" /\ AllSucceeded
    /\ Len(prev_log) = 2 /\ log = << >>

\* C4 as claimed: every file recorded as a per-file failure in one run is
\* submitted again by the next run (when that run reached its transfer loop).
C4_FailedIsRetried ==
    (run >= 2 /\ Ended /\ error # "icd") =>
        \A k \in 1..Len(prev_log) :
            prev_log[k].failed => Submissions(log, prev_log[k].remote) >= 1

\* C5: in the upload script, a pass of the loop that downloaded its file attempts
\* the upload; afterwards the local file is gone exactly when the upload command
\* returned success, a failed upload is recorded as a failure with the file left
\* on disk, and nothing leaves the disk except by such a successful upload.
C5_PurgeIffUploaded ==
    [][ /\ (Uploads(variant) /\ Len(log') = Len(log) + 1) =>
              LET r == log'[Len(log')]
                  save_path == SavePath(r.remote)
              IN  /\ r.exists <=> r.upload # "none"
                  /\ r.upload = "ok" => save_path \notin disk'
                  /\ r.upload = "failed" =>
                        save_path \in disk' /\ r.failed /\ have_exception'
                  /\ \A gone \in disk \ disk' : gone = save_path /\ r.upload = "ok"
        /\ (disk \ disk' # {}) => Uploads(variant) /\ Len(log') = Len(log) + 1
      ]_vars

\* C5 witness: one file was uploaded and purged, the next one's upload failed
\* and its local copy is still there.
C5_Witness ==
    /\ Len(log) = 2
    /\ log[1].upload = "ok" /\ SavePath(log[1].remote) \notin disk
    /\ log[2].upload = "failed" /\ SavePath(log[2].remote) \in disk
    /\ have_exception

----------------------------------------------------------------------------
(* Properties of the selection phase, checked under SpecRun and SpecScan *)

\* C6 as claimed: when the listing of GLOBUS_PATH failed, the run goes on
\* without an exception and ends normally with no file selected and no
\* transfer submitted.
C6_NoFoldersWhenListingFails ==
    /\ (folders = None /\ pc # "open") => error = "none"
    /\ (folders = None /\ Ended) => pc = "done" /\ files = << >> /\ log = << >>

\* an entry that is no integer literal, or an integer outside 0..N
InvalidEntry(entry, candidates) ==
    ~IsInt(entry) \/ IntValue(entry) \notin 0..Len(candidates)

\* C7 as claimed: at the prompt, an entry that is non-numeric or out of range
\* selects nothing, writes nothing, and leaves the run at the prompt of the
\* same folder; no exception ends the run.
C7_InvalidEntryReprompts ==
    [][ (pc = "prompt" /\ InvalidEntry(sel_file', matches)) =>
            /\ pc' = "prompt" /\ error' = "none"
            /\ fidx' = fidx /\ matches' = matches
            /\ found_files' = found_files /\ manifest' = manifest
      ]_vars

\* C8: at the prompt for N candidates, entry 0 ends the prompt loop with nothing
\* selected, entry k in 1..N selects the k-th candidate in candidate order and
\* ends the loop; there is no prompt without candidates, and never more files
\* selected than folders processed.
C8_ValidEntrySelects ==
    [][ /\ (pc = "prompt" /\ ~InvalidEntry(sel_file', matches)) =>
               LET k == IntValue(sel_file')
               IN  /\ pc' = "query" /\ fidx' = fidx + 1 /\ error' = "none"
                   /\ k = 0 => found_files' = found_files
                   /\ k >= 1 => found_files' = found_files \o << matches[k] >>
        /\ pc' = "prompt" => matches' # << >>
        /\ (variant = "terraref" /\ pc' \in { "query", "prompt" }) =>
               Len(found_files') <= fidx' - 1
      ]_vars

\* C8 witness: the operator entered 2 for a folder with two candidates or more
\* and the second candidate is the one file selected.
C8_Witness ==
    /\ variant = "terraref" /\ pc = "query" /\ fidx = 2
    /\ sel_file = << "2" >>
    /\ Len(matches) >= 2
    /\ found_files = << matches[2] >>

\* the lines of a text: the runs of atoms between line breaks
RECURSIVE SplitLines(_)
SplitLines(text) ==
    IF text = << >> THEN << >>
    ELSE LET breaks == { i \in 1..Len(text) : text[i] = "\n" }
             first == IF breaks = {} THEN Len(text) + 1
                      ELSE CHOOSE i \in breaks : \A j \in breaks : i <= j
         IN  << SubSeq(text, 1, first - 1) >> \o SplitLines(SubSeq(text, first + 1, Len(text)))

IsPrefix(s, t) == Len(s) <= Len(t) /\ SubSeq(t, 1, Len(s)) = s

\* C9: from the opening of the manifest on, its lines are the files selected so
\* far, in order; a step writes to it exactly when it selects a file, and what
\* was written in the run stays as it is.
C9_ManifestMirrorsSelection ==
    [][ /\ pc' \notin { "folders", "open" } => SplitLines(manifest') = found_files'
        /\ pc # "open" =>
              /\ IsPrefix(manifest, manifest')
              /\ (manifest' # manifest) <=> (found_files' # found_files)
      ]_vars

\* C9 witness: two folders gave one file each, both are in the manifest, and
\* the selection phase is over.
C9_Witness ==
    /\ pc = "download"
    /\ Len(found_files) = 2
    /\ manifest = found_files[1] \o << "\n" >> \o found_files[2] \o << "\n" >>

\* an entry the include policy accepts
Included(e) ==
    /\ e.type # "dir"
    /\ ExtensionAllowed(e.name, CheckExt(extensions))
    /\ FoundPart(e.name, parts)

\* C10: get_10pct.py's query_files on one folder finds nothing when no entry of
\* the listing is included, and otherwise exactly the first included entry in
\* listing order, under that folder's path.
C10_FirstIncludedOnly ==
    (variant = "10pct" /\ pc = "query") =>
        LET hits == { i \in 1..Len(path_contents) : Included(path_contents[i]) }
            cur_path == PathJoin(<< "/", "-" >>, folders.items[1])
        IN  /\ Len(matches) <= 1
            /\ found_files = matches
            /\ hits = {} => matches = << >>
            /\ hits # {} =>
                  LET first == CHOOSE i \in hits : \A j \in hits : i <= j
                  IN  matches = << PathJoin(cur_path, path_contents[first].name) >>

\* C10 witness: the listing a_10pct.tif, b_10pct.tif, c.tif with the script's
\* own policy gave a_10pct.tif alone.
C10_Witness ==
    /\ variant = "10pct" /\ pc = "query"
    /\ extensions = TifExtensions /\ parts = IncludeParts
    /\ Len(path_contents) = 3
    /\ path_contents[1].name = << "a", "_10pct", ".", "tif" >>
    /\ path_contents[2].name = << "b", "_10pct", ".", "tif" >>
    /\ path_contents[3].name = << "c", ".", "tif" >>
    /\ found_files = << PathJoin(FolderPath(1), << "a", "_10pct", ".", "tif" >>) >>

\* the entry is one the exclude scan is to offer: not a directory, its
\* extension among the allowed ones, none of the parts in its name
Offered(e) ==
    /\ e.type # "dir"
    /\ FileFormat(e.name) \in { LStrip(extensions[k], ".") : k \in 1..Len(extensions) }
    /\ \A k \in 1..Len(parts) : ~Contains(e.name, parts[k])

\* C11: in the interactive script, after a folder is listed the candidates are
\* exactly the entries of the listing that are not directories, have an allowed
\* extension and contain no excluded part, in the order of the listing; an
\* entry with another extension is never a candidate, and the scan goes on
\* after the first candidate
C11_ExcludeFilterExact ==
    (variant = "terraref" /\ pc \in { "query", "prompt" }) =>
        LET keep == SelectSeq(path_contents, Offered)
            cur_path == PathJoin(<< "/", "-" >>, folders.items[1])
        IN  /\ Len(matches) = Len(keep)
            /\ \A i \in 1..Len(keep) : matches[i] = PathJoin(cur_path, keep[i].name)
            /\ \A i \in 1..Len(path_contents) :
                   ~(FileFormat(path_contents[i].name) \in Range(CheckExt(extensions)))
                       => PathJoin(cur_path, path_contents[i].name) \notin Range(matches)

\* C11 happens: a listing with an excluded entry between two candidates is
\* scanned to its end and both candidates are offered at the prompt
C11_Witness ==
    /\ variant = "terraref"
    /\ pc = "prompt"
    /\ extensions = TifExtensions
    /\ parts = ExcludeParts
    /\ Len(path_contents) = 3
    /\ path_contents[1].name = << "c", ".", "tif" >>
    /\ path_contents[2].name = << "a", "_10pct", ".", "tif" >>
    /\ path_contents[3].name = << "b", ".", "TIF" >>
    /\ matches = << PathJoin(FolderPath(1), << "c", ".", "tif" >>),
                    PathJoin(FolderPath(1), << "b", ".", "TIF" >>) >>

\* the extensions passed to query_files hold the wildcard
HasWildcard == \E k \in 1..Len(extensions) : extensions[k] = << "*" >>

\* the entry qualifies by the name parts alone: kept by the exclude scan when
\* no part is in its name, by the include scan when some part is
QualifiesByParts(e) ==
    /\ e.type # "dir"
    /\ IF variant = "terraref"
       THEN \A k \in 1..Len(parts) : ~Contains(e.name, parts[k])
       ELSE \E k \in 1..Len(parts) : Contains(e.name, parts[k])

\* C12: when the extensions hold the wildcard "*", every entry of the listing
\* that is not a directory passes the extension check, whatever its extension
\* or without one, so the matches are those the name parts alone decide: all
\* the qualifying entries in the interactive script, the first one in the other
C12_WildcardAcceptsAnyExtension ==
    (HasWildcard /\ pc \in { "query", "prompt" }) =>
        LET keep == SelectSeq(path_contents, QualifiesByParts)
            cur_path == PathJoin(<< "/", "-" >>, folders.items[1])
        IN  /\ \A i \in 1..Len(path_contents) :
                   path_contents[i].type # "dir" =>
                       ExtensionAllowed(path_contents[i].name, CheckExt(extensions))
            /\ IF variant = "terraref"
               THEN matches = [ i \in 1..Len(keep) |-> PathJoin(cur_path, keep[i].name) ]
               ELSE matches = IF keep = << >> THEN << >>
                              ELSE << PathJoin(cur_path, keep[1].name) >>

====
